---- MODULE Spec2Model ----
(***************************************************************************)
(* HX711 driver (src/src/lib.rs): the bit-banged read cycle of retrieve,   *)
(* the mode and power operations built on it, and the 24-bit sign          *)
(* conversion.  The driver is single-threaded: the state is the driver's   *)
(* fields, the call stack with the position in the running function, the   *)
(* locals of retrieve, the level of the clock line and the pin operations  *)
(* issued by the current public call.                                      *)
(***************************************************************************)
EXTENDS Integers, Sequences, FiniteSets

VARIABLES
    mode,          \* Hx711.mode: 1, 2, 3 (Mode as u16); NoDriver before construction
    sck,           \* level last driven successfully on pd_sck: "low" or "high"
    stack,         \* functions being executed, outermost first
    pc,            \* position in the innermost function; "idle" between public calls
    arg,           \* the mode parameter of the running (or last) set_mode
    count,         \* retrieve's accumulator (i32)
    i,             \* retrieve's 24-bit loop counter
    n_reads,       \* retrieve's trailing pulse count
    j,             \* retrieve's trailing loop counter
    ret,           \* the value returned by the function that returned last
    pattern,       \* the 24-bit conversion the chip shifts out in the current read
    log,           \* pin and delay operations issued by the current public call
    rstart,        \* index in log of the first operation of the latest retrieve
    rmode,         \* the stored mode when the latest retrieve began
    call,          \* the public operation in progress, or the one that returned last
    retries,       \* not-ready attempts of the blocking loop of the current enable
    powered_down,  \* a successful disable has held the clock high and no write has lowered it since
    latched,       \* the mode of the last successful public set_mode, 0 once another set_mode is called
    pd_mode,       \* the mode stored when a successful disable began, kept through the enable and the retrieve that follow it
    fresh,         \* the driver, when the current call began, had only been constructed and set to a mode
    ref,           \* the first read-if-ready of a fresh driver that met no pin failure
    observe,       \* whether the run keeps ref (it keeps sent otherwise)
    woke,          \* the step just taken ended a power-down
    requested,     \* the mode last passed to set_mode on this driver, the default after new
    sent           \* the trailing pulses of the last read cycle that completed, 0 if none

vars == <<mode, sck, stack, pc, arg, count, i, n_reads, j, ret, pattern, log,
          rstart, rmode, call, retries, powered_down, latched, pd_mode, fresh, ref,
          observe, woke, requested, sent>>

(***************************************************************************)
(* Constants of the driver.                                                *)
(***************************************************************************)
ChAGain128 == 1
ChBGain32 == 2
ChAGain64 == 3
Mode == {ChAGain128, ChBGain32, ChAGain64}
NoDriver == 0

\* "stays at high for longer than 60 us, HX711 enters power down mode"
POWER_DOWN_US == 60
TIME_TO_SLEEP == 70
TIME_BEFORE_READOUT == 1
\* Fault: a pulse holds the clock high as long as disable does.
TIME_SCK_HIGH_SLEEP == 60 + 10
TIME_SCK_HIGH == 1
TIME_SCK_LOW == 1
\* Fault: the read loop runs 25 times.
NBITS_25 == 24 + 1
NBITS == 24

\* Blocking retries of enable that the data line may answer "not ready".
MaxRetries == 2

\* The conversions the chip delivers (the patterns of tests::convert, and 0).
Patterns == {0, 8388607, 8388608, 16777203}

(***************************************************************************)
(* i32 arithmetic.                                                         *)
(***************************************************************************)
MinI32 == -2147483647 - 1
Pow30 == 1073741824

RECURSIVE Pow2(_)
Pow2(n) == IF n <= 0 THEN 1 ELSE 2 * Pow2(n - 1)

\* Fault: the accumulator is not shifted.
ShlNone(x) == x

\* x << 1 on an i32: the low 32 bits of 2x, read as two's complement.
Shl1(x) ==
    LET lo == IF x >= 0 THEN x ELSE (x + Pow30) + Pow30
    IN  IF lo >= Pow30 THEN (lo - Pow30) * 2 + MinI32 ELSE lo * 2

\* !x on an i32.
BitNot(x) == -x - 1

\* a | b on two's-complement integers, bit by bit.
RECURSIVE BitOr(_, _)
BitOr(a, b) ==
    IF a = 0 THEN b
    ELSE IF b = 0 THEN a
    ELSE IF a = -1 \/ b = -1 THEN -1
    ELSE (IF a % 2 = 1 \/ b % 2 = 1 THEN 1 ELSE 0) + 2 * BitOr(a \div 2, b \div 2)

\* Fault: the 24-bit pattern is returned as it is, the sign is not extended.
i24_to_i32_raw(x) == x

\* Fault: the sign test excludes 0x800000.
i24_to_i32_gt(x) ==
    IF x > 8388608 THEN BitOr(x, BitNot(16777215)) ELSE x

\* fn i24_to_i32(x: i32) -> i32
i24_to_i32(x) ==
    IF x >= 8388608 THEN BitOr(x, BitNot(16777215)) ELSE x

\* pub const MAX_VALUE: i32 = (1 << 23) - 1;
MAX_VALUE == Pow2(23) - 1
\* pub const MIN_VALUE: i32 = 1 << 23;
MIN_VALUE == Pow2(23)

(***************************************************************************)
(* Results and pin operations.                                             *)
(***************************************************************************)
Ok(v) == [kind |-> "Ok", val |-> v]
WouldBlock == [kind |-> "WouldBlock", val |-> 0]
ErrInput == [kind |-> "Input", val |-> 0]
ErrOutput == [kind |-> "Output", val |-> 0]
NoResult == [kind |-> "None", val |-> 0]

\* A logged operation: <<name, a>>; a is 0 for a write, the level read (1 high,
\* 0 low) for is_high, the microseconds for delay_us, and -1 when the pin failed.
SetLow(ok) == <<"set_low", IF ok THEN 0 ELSE -1>>
SetHigh(ok) == <<"set_high", IF ok THEN 0 ELSE -1>>
IsHigh(v) == <<"is_high", v>>
DelayUs(us) == <<"delay_us", us>>

\* The level the chip puts on dout after the falling edge of data pulse k (0-based):
\* the conversion is shifted out most significant bit first.
DoutBit(p, k) == (p \div Pow2(NBITS - 1 - k)) % 2

(***************************************************************************)
(* Calls and returns.                                                      *)
(***************************************************************************)
Top == stack[Len(stack)]
In(f, l) == stack # <<>> /\ Top = f /\ pc = l

\* Where the caller continues when the callee returns.
Cont(caller, callee) ==
    CASE caller = "new" /\ callee = "reset" -> "new_ret"
      [] caller = "reset" /\ callee = "disable" -> "reset_q"
      [] caller = "reset" /\ callee = "enable" -> "reset_ret"
      [] caller = "enable" /\ callee = "set_mode" -> "enable_block"
      [] caller = "set_mode" /\ callee = "retrieve" -> "set_mode_and"

Entry(f) ==
    CASE f = "new" -> "new_set_low"
      [] f = "reset" -> "reset_disable"
      [] f = "disable" -> "disable_set_high"
      [] f = "enable" -> "enable_set_low"
      [] f = "set_mode" -> "set_mode_store"
      [] f = "retrieve" -> "retrieve_set_low"

\* The innermost function returns r.
Return(r) ==
    /\ ret' = r
    /\ IF Len(stack) = 1
       THEN /\ stack' = <<>>
            /\ pc' = "idle"
       ELSE /\ stack' = SubSeq(stack, 1, Len(stack) - 1)
            /\ pc' = Cont(stack[Len(stack) - 1], Top)
    /\ UNCHANGED call

\* The innermost function calls f.
Call(f) ==
    /\ stack' = Append(stack, f)
    /\ pc' = Entry(f)

Locals == <<count, i, n_reads, j>>
DropLocals == count' = 0 /\ i' = 0 /\ n_reads' = 0 /\ j' = 0

NoRef == [mode |-> NoDriver, input |-> -1, log |-> <<>>, ret |-> NoResult]
History == <<latched, pd_mode, fresh, ref, observe, requested>>

InitDriver ==
    /\ mode = NoDriver
    /\ sck \in {"low", "high"}
    /\ stack = <<>>
    /\ pc = "idle"
    /\ arg = NoDriver
    /\ count = 0 /\ i = 0 /\ n_reads = 0 /\ j = 0
    /\ ret = NoResult
    /\ pattern = 0
    /\ log = <<>>
    /\ rstart = 1
    /\ rmode = NoDriver
    /\ call = "none"
    /\ retries = 0
    /\ powered_down = FALSE
    /\ latched = 0
    /\ pd_mode = 0
    /\ fresh = FALSE
    /\ ref = NoRef
    /\ woke = FALSE
    /\ requested = NoDriver
    /\ sent = 0

Init == InitDriver /\ observe = FALSE


(***************************************************************************)
(* Pin operations.  Each may fail; a failed write leaves the line as it    *)
(* was, and the `?` after map_err returns the error from the function.     *)
(***************************************************************************)
\* self.pd_sck.set_low().map_err(Error::Output)?
WriteLow(next) ==
    \E ok \in BOOLEAN :
        /\ log' = Append(log, SetLow(ok))
        /\ IF ok
           THEN /\ sck' = "low"
                /\ powered_down' = FALSE
                /\ woke' = powered_down
                /\ pc' = next
                /\ UNCHANGED <<stack, ret, call, Locals>>
           ELSE /\ Return(ErrOutput)
                /\ DropLocals
                /\ woke' = FALSE
                /\ UNCHANGED <<sck, powered_down>>

\* self.pd_sck.set_high().map_err(Error::Output)?
WriteHigh(next) ==
    \E ok \in BOOLEAN :
        /\ log' = Append(log, SetHigh(ok))
        /\ IF ok
           THEN /\ sck' = "high"
                /\ pc' = next
                /\ UNCHANGED <<stack, ret, call, Locals>>
           ELSE /\ Return(ErrOutput)
                /\ DropLocals
                /\ UNCHANGED sck
        /\ UNCHANGED powered_down

\* self.delay.delay_us(us)
Delay(us, next) ==
    /\ log' = Append(log, DelayUs(us))
    /\ pc' = next
    /\ UNCHANGED <<sck, powered_down, stack, ret, call>>

(***************************************************************************)
(* retrieve (lines 131-163).                                               *)
(***************************************************************************)
\* Fault: the trailing loop runs one time too many.
PulsesOneMore(m) == m + 1

\* self.mode as u16
Pulses(m) == m

RetrieveSetLow ==
    /\ In("retrieve", "retrieve_set_low")
    /\ rstart' = Len(log) + 1
    /\ rmode' = mode
    /\ WriteLow("retrieve_ready")
    /\ UNCHANGED <<mode, arg, pattern, retries>>
    /\ UNCHANGED <<History, sent>>

\* Fault: the readiness test is inverted, a high data line starts the read.
RetrieveReadyInverted ==
    /\ In("retrieve", "retrieve_ready")
    /\ \/ /\ log' = Append(log, IsHigh(-1))
          /\ Return(ErrInput)
          /\ UNCHANGED pattern
       \/ /\ log' = Append(log, IsHigh(0))
          /\ Return(WouldBlock)
          /\ UNCHANGED pattern
       \/ \E p \in Patterns :
              /\ pattern' = p
              /\ log' = Append(log, IsHigh(1))
              /\ pc' = "retrieve_settle"
              /\ UNCHANGED <<stack, ret, call>>
    /\ UNCHANGED <<mode, sck, arg, Locals, rstart, rmode, retries, powered_down>>
    /\ UNCHANGED <<History, sent>>
    /\ woke' = FALSE

\* if self.dout.is_high().map_err(Error::Input)? { return Err(nb::Error::WouldBlock); }
RetrieveReady ==
    /\ In("retrieve", "retrieve_ready")
    /\ \/ /\ log' = Append(log, IsHigh(-1))
          /\ Return(ErrInput)
          /\ UNCHANGED pattern
       \/ /\ "enable" \in {stack[k] : k \in DOMAIN stack} => retries < MaxRetries
          /\ log' = Append(log, IsHigh(1))
          /\ Return(WouldBlock)
          /\ UNCHANGED pattern
       \/ \E p \in Patterns :
              /\ pattern' = p
              /\ log' = Append(log, IsHigh(0))
              /\ pc' = "retrieve_settle"
              /\ UNCHANGED <<stack, ret, call>>
    /\ UNCHANGED <<mode, sck, arg, Locals, rstart, rmode, retries, powered_down>>
    /\ UNCHANGED <<History, sent>>
    /\ woke' = FALSE

\* self.delay.delay_us(TIME_BEFORE_READOUT); let mut count: i32 = 0; for _ in 0..24
RetrieveSettle ==
    /\ In("retrieve", "retrieve_settle")
    /\ Delay(TIME_BEFORE_READOUT, IF 0 < NBITS THEN "bit_shift" ELSE "mode_n_reads")
    /\ count' = 0
    /\ i' = 0
    /\ UNCHANGED <<mode, arg, n_reads, j, pattern, rstart, rmode, retries>>
    /\ UNCHANGED <<History, sent>>
    /\ woke' = FALSE

\* count <<= 1
BitShift ==
    /\ In("retrieve", "bit_shift")
    /\ count' = Shl1(count)
    /\ pc' = "bit_set_high"
    /\ UNCHANGED <<mode, sck, stack, arg, i, n_reads, j, ret, pattern, log, rstart, rmode,
                   call, retries, powered_down>>
    /\ UNCHANGED <<History, sent>>
    /\ woke' = FALSE

BitSetHigh ==
    /\ In("retrieve", "bit_set_high")
    /\ WriteHigh("bit_delay_high")
    /\ UNCHANGED <<mode, arg, pattern, rstart, rmode, retries>>
    /\ UNCHANGED <<History, sent>>
    /\ woke' = FALSE

\* Fault: the bit is sampled while the clock is still high, before the
\* falling edge of its pulse.
BitDelayHighSample ==
    /\ In("retrieve", "bit_delay_high")
    /\ Delay(TIME_SCK_HIGH, "bit_sample")
    /\ UNCHANGED <<mode, arg, Locals, pattern, rstart, rmode, retries>>
    /\ UNCHANGED <<History, sent>>
    /\ woke' = FALSE

BitDelayHigh ==
    /\ In("retrieve", "bit_delay_high")
    /\ Delay(TIME_SCK_HIGH, "bit_set_low")
    /\ UNCHANGED <<mode, arg, Locals, pattern, rstart, rmode, retries>>
    /\ UNCHANGED <<History, sent>>
    /\ woke' = FALSE

BitSetLow ==
    /\ In("retrieve", "bit_set_low")
    /\ WriteLow("bit_sample")
    /\ UNCHANGED <<mode, arg, pattern, rstart, rmode, retries>>
    /\ UNCHANGED <<History, sent>>

\* Fault: a failed sample is reported as an Output error.
BitSampleAsOutput ==
    /\ In("retrieve", "bit_sample")
    /\ \/ /\ log' = Append(log, IsHigh(-1))
          /\ Return(ErrOutput)
          /\ DropLocals
       \/ LET v == DoutBit(pattern, i)
          IN  /\ log' = Append(log, IsHigh(v))
              /\ count' = IF v = 1 THEN count + 1 ELSE count
              /\ pc' = "bit_delay_low"
              /\ UNCHANGED <<stack, ret, call, i, n_reads, j>>
    /\ UNCHANGED <<mode, sck, arg, pattern, rstart, rmode, retries, powered_down>>
    /\ UNCHANGED <<History, sent>>
    /\ woke' = FALSE

\* if self.dout.is_high().map_err(Error::Input)? { count += 1; }
BitSample ==
    /\ In("retrieve", "bit_sample")
    /\ \/ /\ log' = Append(log, IsHigh(-1))
          /\ Return(ErrInput)
          /\ DropLocals
       \/ LET v == DoutBit(pattern, i)
          IN  /\ log' = Append(log, IsHigh(v))
              /\ count' = IF v = 1 THEN count + 1 ELSE count
              /\ pc' = "bit_delay_low"
              /\ UNCHANGED <<stack, ret, call, i, n_reads, j>>
    /\ UNCHANGED <<mode, sck, arg, pattern, rstart, rmode, retries, powered_down>>
    /\ UNCHANGED <<History, sent>>
    /\ woke' = FALSE

\* self.delay.delay_us(TIME_SCK_LOW); next iteration of for _ in 0..24
BitDelayLow ==
    /\ In("retrieve", "bit_delay_low")
    /\ Delay(TIME_SCK_LOW, IF i + 1 < NBITS THEN "bit_shift" ELSE "mode_n_reads")
    /\ i' = i + 1
    /\ UNCHANGED <<mode, arg, count, n_reads, j, pattern, rstart, rmode, retries>>
    /\ UNCHANGED <<History, sent>>
    /\ woke' = FALSE

\* let n_reads = self.mode as u16; for _ in 0..n_reads
ModeNReads ==
    /\ In("retrieve", "mode_n_reads")
    /\ n_reads' = Pulses(mode)
    /\ j' = 0
    /\ pc' = IF 0 < Pulses(mode) THEN "mode_set_high" ELSE "retrieve_ok"
    /\ UNCHANGED <<mode, sck, stack, arg, count, i, ret, pattern, log, rstart, rmode,
                   call, retries, powered_down>>
    /\ UNCHANGED <<History, sent>>
    /\ woke' = FALSE

ModeSetHigh ==
    /\ In("retrieve", "mode_set_high")
    /\ WriteHigh("mode_delay_high")
    /\ UNCHANGED <<mode, arg, pattern, rstart, rmode, retries>>
    /\ UNCHANGED <<History, sent>>
    /\ woke' = FALSE

ModeDelayHigh ==
    /\ In("retrieve", "mode_delay_high")
    /\ Delay(TIME_SCK_HIGH, "mode_set_low")
    /\ UNCHANGED <<mode, arg, Locals, pattern, rstart, rmode, retries>>
    /\ UNCHANGED <<History, sent>>
    /\ woke' = FALSE

\* Fault: the trailing pulse is not ended, the clock is driven high again.
ModeSetHighAgain ==
    /\ In("retrieve", "mode_set_low")
    /\ WriteHigh("mode_delay_low")
    /\ UNCHANGED <<mode, arg, pattern, rstart, rmode, retries>>
    /\ UNCHANGED <<History, sent>>
    /\ woke' = FALSE

ModeSetLow ==
    /\ In("retrieve", "mode_set_low")
    /\ WriteLow("mode_delay_low")
    /\ UNCHANGED <<mode, arg, pattern, rstart, rmode, retries>>
    /\ UNCHANGED <<History, sent>>

ModeDelayLow ==
    /\ In("retrieve", "mode_delay_low")
    /\ Delay(TIME_SCK_LOW, IF j + 1 < n_reads THEN "mode_set_high" ELSE "retrieve_ok")
    /\ j' = j + 1
    /\ UNCHANGED <<mode, arg, count, i, n_reads, pattern, rstart, rmode, retries>>
    /\ UNCHANGED <<History, sent>>
    /\ woke' = FALSE

\* Ok(i24_to_i32(count))
RetrieveOk ==
    /\ In("retrieve", "retrieve_ok")
    /\ Return(Ok(i24_to_i32(count)))
    /\ DropLocals
    /\ sent' = IF observe THEN sent ELSE j
    /\ UNCHANGED <<mode, sck, arg, pattern, log, rstart, rmode, retries, powered_down>>
    /\ UNCHANGED History
    /\ woke' = FALSE

(***************************************************************************)
(* set_mode (lines 106-109).                                               *)
(***************************************************************************)
\* Fault: the new mode is not stored before the read.
SetModeNoStore ==
    /\ In("set_mode", "set_mode_store")
    /\ mode' = mode
    /\ Call("retrieve")
    /\ UNCHANGED <<sck, arg, Locals, ret, pattern, log, rstart, rmode, call, retries,
                   powered_down>>
    /\ UNCHANGED <<History, sent>>
    /\ woke' = FALSE

\* self.mode = mode; self.retrieve()
SetModeStore ==
    /\ In("set_mode", "set_mode_store")
    /\ mode' = arg
    /\ Call("retrieve")
    /\ UNCHANGED <<sck, arg, Locals, ret, pattern, log, rstart, rmode, call, retries,
                   powered_down>>
    /\ UNCHANGED <<History, sent>>
    /\ woke' = FALSE

\* Fault: a set_mode whose read does not succeed falls back to the default mode.
SetModeAndRollBack ==
    /\ In("set_mode", "set_mode_and")
    /\ mode' = IF ret.kind = "Ok" THEN mode ELSE ChAGain128
    /\ Return(IF ret.kind = "Ok" THEN Ok(0) ELSE ret)
    /\ UNCHANGED <<sck, arg, Locals, pattern, log, rstart, rmode, retries, powered_down>>
    /\ UNCHANGED <<History, sent>>
    /\ woke' = FALSE

\* .and(Ok(())): Ok(_) becomes Ok(()), an Err (WouldBlock included) is passed on
SetModeAnd ==
    /\ In("set_mode", "set_mode_and")
    /\ Return(IF ret.kind = "Ok" THEN Ok(0) ELSE ret)
    /\ UNCHANGED <<mode, sck, arg, Locals, pattern, log, rstart, rmode, retries, powered_down>>
    /\ UNCHANGED <<History, sent>>
    /\ woke' = FALSE

(***************************************************************************)
(* disable (lines 111-115).                                                *)
(***************************************************************************)
\* Fault: disable drives the clock low.
DisableSetLow ==
    /\ In("disable", "disable_set_high")
    /\ WriteLow("disable_delay")
    /\ UNCHANGED <<mode, arg, pattern, rstart, rmode, retries>>
    /\ UNCHANGED <<History, sent>>

DisableSetHigh ==
    /\ In("disable", "disable_set_high")
    /\ WriteHigh("disable_delay")
    /\ UNCHANGED <<mode, arg, pattern, rstart, rmode, retries>>
    /\ UNCHANGED <<History, sent>>
    /\ woke' = FALSE

\* Fault: disable returns without holding the clock high.
DisableNoDelay ==
    /\ In("disable", "disable_delay")
    /\ powered_down' = TRUE
    /\ Return(Ok(0))
    /\ UNCHANGED <<mode, sck, arg, Locals, pattern, log, rstart, rmode, retries>>
    /\ UNCHANGED <<History, sent>>
    /\ woke' = FALSE

\* self.delay.delay_us(TIME_TO_SLEEP); Ok(())
DisableDelay ==
    /\ In("disable", "disable_delay")
    /\ log' = Append(log, DelayUs(TIME_TO_SLEEP))
    /\ powered_down' = TRUE
    /\ Return(Ok(0))
    /\ UNCHANGED <<mode, sck, arg, Locals, pattern, rstart, rmode, retries>>
    /\ UNCHANGED <<History, sent>>
    /\ woke' = FALSE

(***************************************************************************)
(* enable (lines 118-122).                                                 *)
(***************************************************************************)
EnableSetLow ==
    /\ In("enable", "enable_set_low")
    /\ WriteLow("enable_delay")
    /\ UNCHANGED <<mode, arg, pattern, rstart, rmode, retries>>
    /\ UNCHANGED <<History, sent>>

EnableDelay ==
    /\ In("enable", "enable_delay")
    /\ Delay(TIME_SCK_LOW, "enable_call")
    /\ UNCHANGED <<mode, arg, Locals, pattern, rstart, rmode, retries>>
    /\ UNCHANGED <<History, sent>>
    /\ woke' = FALSE

\* Fault: enable sets the default mode instead of the stored one.
EnableCallDefault ==
    /\ In("enable", "enable_call")
    /\ arg' = ChAGain128
    /\ Call("set_mode")
    /\ UNCHANGED <<mode, sck, Locals, ret, pattern, log, rstart, rmode, call, retries,
                   powered_down>>
    /\ UNCHANGED <<History, sent>>
    /\ woke' = FALSE

\* nb::block! evaluates self.set_mode(self.mode)
EnableCall ==
    /\ In("enable", "enable_call")
    /\ arg' = mode
    /\ Call("set_mode")
    /\ UNCHANGED <<mode, sck, Locals, ret, pattern, log, rstart, rmode, call, retries,
                   powered_down>>
    /\ UNCHANGED <<History, sent>>
    /\ woke' = FALSE

\* Fault: enable calls set_mode once and returns whatever it returned.
EnableNoBlock ==
    /\ In("enable", "enable_block")
    /\ Return(ret)
    /\ UNCHANGED <<mode, sck, arg, Locals, pattern, log, rstart, rmode, retries,
                   powered_down>>
    /\ UNCHANGED <<History, sent>>
    /\ woke' = FALSE

\* Fault: the wait does not call the read again after a not-ready answer.
EnableBlockSpin ==
    /\ In("enable", "enable_block")
    /\ IF ret.kind = "WouldBlock"
       THEN UNCHANGED <<pc, retries, stack, ret, call>>
       ELSE /\ Return(ret)
            /\ UNCHANGED retries
    /\ UNCHANGED <<mode, sck, arg, Locals, pattern, log, rstart, rmode, powered_down>>
    /\ UNCHANGED <<History, sent>>
    /\ woke' = FALSE

\* nb::block!: WouldBlock loops, Err(Other(e)) returns Err(e), Ok(x) returns Ok(x)
EnableBlock ==
    /\ In("enable", "enable_block")
    /\ IF ret.kind = "WouldBlock"
       THEN /\ pc' = "enable_call"
            /\ retries' = retries + 1
            /\ UNCHANGED <<stack, ret, call>>
       ELSE /\ Return(ret)
            /\ UNCHANGED retries
    /\ UNCHANGED <<mode, sck, arg, Locals, pattern, log, rstart, rmode, powered_down>>
    /\ UNCHANGED <<History, sent>>
    /\ woke' = FALSE

(***************************************************************************)
(* reset (lines 125-128).                                                  *)
(***************************************************************************)
ResetDisable ==
    /\ In("reset", "reset_disable")
    /\ Call("disable")
    /\ UNCHANGED <<mode, sck, arg, Locals, ret, pattern, log, rstart, rmode, call,
                   retries, powered_down>>
    /\ UNCHANGED <<History, sent>>
    /\ woke' = FALSE

\* self.disable()?; self.enable()
ResetQ ==
    /\ In("reset", "reset_q")
    /\ IF ret.kind = "Ok"
       THEN /\ Call("enable")
            /\ UNCHANGED <<ret, call>>
       ELSE Return(ret)
    /\ UNCHANGED <<mode, sck, arg, Locals, pattern, log, rstart, rmode, retries, powered_down>>
    /\ UNCHANGED <<History, sent>>
    /\ woke' = FALSE

ResetRet ==
    /\ In("reset", "reset_ret")
    /\ Return(ret)
    /\ UNCHANGED <<mode, sck, arg, Locals, pattern, log, rstart, rmode, retries, powered_down>>
    /\ UNCHANGED <<History, sent>>
    /\ woke' = FALSE

(***************************************************************************)
(* new (lines 88-98).                                                      *)
(***************************************************************************)
NewSetLow ==
    /\ In("new", "new_set_low")
    /\ WriteLow("new_init")
    /\ UNCHANGED <<mode, arg, pattern, rstart, rmode, retries>>
    /\ UNCHANGED <<History, sent>>

\* Fault: the driver is built with another mode than the chip's default.
NewInitGain64 ==
    /\ In("new", "new_init")
    /\ mode' = ChAGain64
    /\ Call("reset")
    /\ UNCHANGED <<sck, arg, Locals, ret, pattern, log, rstart, rmode, call, retries,
                   powered_down>>
    /\ UNCHANGED <<History, sent>>
    /\ woke' = FALSE

\* let mut hx711 = Hx711 { .., mode: Mode::ChAGain128 }; hx711.reset()
NewInit ==
    /\ In("new", "new_init")
    /\ mode' = ChAGain128
    /\ Call("reset")
    /\ UNCHANGED <<sck, arg, Locals, ret, pattern, log, rstart, rmode, call, retries,
                   powered_down>>
    /\ UNCHANGED <<History, sent>>
    /\ woke' = FALSE

\* hx711.reset()?; Ok(hx711): on an error the driver is dropped
NewRet ==
    /\ In("new", "new_ret")
    /\ mode' = IF ret.kind = "Ok" THEN mode ELSE NoDriver
    /\ Return(ret)
    /\ UNCHANGED <<sck, arg, Locals, pattern, log, rstart, rmode, retries, powered_down>>
    /\ UNCHANGED <<History, sent>>
    /\ woke' = FALSE

(***************************************************************************)
(* The caller: one public operation at a time, in any order.               *)
(***************************************************************************)
\* What the data line answered to the read-if-ready that returned last.
Input == IF ret.kind = "WouldBlock" THEN -1 ELSE pattern
LastOk(f) == call = f /\ ret.kind = "Ok"

\* The records kept about the calls made so far, brought up to date when public
\* operation f is called.
Remember(f) ==
    /\ latched' = IF f \in {"set_mode", "new"} THEN 0
                  ELSE IF LastOk("set_mode") THEN arg
                  ELSE latched
    /\ pd_mode' = CASE f = "disable" -> mode
                    [] f = "enable" -> IF LastOk("disable") THEN pd_mode ELSE 0
                    [] f = "retrieve" -> IF LastOk("enable") THEN pd_mode ELSE 0
                    [] OTHER -> 0
    /\ fresh' = (LastOk("new") \/ (fresh /\ LastOk("set_mode")))
    /\ ref' = IF /\ observe
                 /\ ref = NoRef
                 /\ fresh
                 /\ call = "retrieve"
                 /\ ret.kind \in {"Ok", "WouldBlock"}
              THEN [mode |-> mode, input |-> Input, log |-> log, ret |-> ret]
              ELSE ref
    /\ UNCHANGED observe

Begin(f, a) ==
    /\ pc = "idle"
    /\ stack' = <<f>>
    /\ pc' = Entry(f)
    /\ arg' = a
    /\ ret' = NoResult
    /\ pattern' = 0
    /\ log' = <<>>
    /\ rstart' = 1
    /\ rmode' = NoDriver
    /\ retries' = 0
    /\ call' = f
    /\ Remember(f)
    /\ requested' = CASE f = "new" -> ChAGain128
                       [] f = "set_mode" -> a
                       [] OTHER -> requested
    /\ UNCHANGED <<mode, sck, Locals, powered_down, sent>>
    /\ woke' = FALSE

CallNew ==
    /\ mode = NoDriver
    /\ Begin("new", NoDriver)

CallRetrieve ==
    /\ mode # NoDriver
    /\ Begin("retrieve", NoDriver)

CallSetMode ==
    /\ mode # NoDriver
    /\ \E m \in Mode : Begin("set_mode", m)

CallDisable ==
    /\ mode # NoDriver
    /\ Begin("disable", NoDriver)

CallEnable ==
    /\ mode # NoDriver
    /\ Begin("enable", NoDriver)

CallReset ==
    /\ mode # NoDriver
    /\ Begin("reset", NoDriver)

\* Fault: get_mode answers the default mode, not the stored one.
GetModeDefault ==
    /\ pc = "idle"
    /\ mode # NoDriver
    /\ ret' = Ok(ChAGain128)
    /\ call' = "get_mode"
    /\ arg' = NoDriver
    /\ log' = <<>>
    /\ rstart' = 1
    /\ rmode' = NoDriver
    /\ pattern' = 0
    /\ retries' = 0
    /\ Remember("get_mode")
    /\ UNCHANGED <<mode, sck, stack, pc, Locals, powered_down, requested, sent>>
    /\ woke' = FALSE

\* pub fn get_mode(&self) -> Mode { self.mode }
GetMode ==
    /\ pc = "idle"
    /\ mode # NoDriver
    /\ ret' = Ok(mode)
    /\ call' = "get_mode"
    /\ arg' = NoDriver
    /\ log' = <<>>
    /\ rstart' = 1
    /\ rmode' = NoDriver
    /\ pattern' = 0
    /\ retries' = 0
    /\ Remember("get_mode")
    /\ UNCHANGED <<mode, sck, stack, pc, Locals, powered_down, requested, sent>>
    /\ woke' = FALSE

Next ==
    \/ CallNew \/ NewSetLow \/ NewInit \/ NewRet
    \/ CallRetrieve \/ RetrieveSetLow \/ RetrieveReady \/ RetrieveSettle
    \/ BitShift \/ BitSetHigh \/ BitDelayHigh \/ BitSetLow \/ BitSample \/ BitDelayLow
    \/ ModeNReads \/ ModeSetHigh \/ ModeDelayHigh \/ ModeSetLow \/ ModeDelayLow
    \/ RetrieveOk
    \/ CallSetMode \/ SetModeStore \/ SetModeAnd
    \/ CallDisable \/ DisableSetHigh \/ DisableDelay
    \/ CallEnable \/ EnableSetLow \/ EnableDelay \/ EnableCall \/ EnableBlock
    \/ CallReset \/ ResetDisable \/ ResetQ \/ ResetRet
    \/ GetMode

Spec == Init /\ [][Next]_vars

\* The same driver and caller, keeping the reference read of a fresh driver.
InitRef == InitDriver /\ observe = TRUE

SpecRef == InitRef /\ [][Next]_vars

(***************************************************************************)
(* The sign conversion on its own: i24_to_i32 applied to 24-bit patterns   *)
(* around 0, the sign boundary and the top of the range, and to the        *)
(* patterns with one bit set, one bit clear and the low bits set.          *)
(***************************************************************************)
ConvWindow == 16

ConvInputs ==
    (0 .. ConvWindow)
        \cup ((8388608 - ConvWindow) .. (8388608 + ConvWindow))
        \cup ((16777215 - ConvWindow) .. 16777215)
        \cup {Pow2(k) : k \in 0 .. 23}
        \cup {Pow2(k) - 1 : k \in 0 .. 24}
        \cup {16777215 - Pow2(k) : k \in 0 .. 23}
        \cup {15728640}

ConvCall ==
    /\ pc = "idle"
    /\ call = "none"
    /\ \E x \in ConvInputs : count' = x
    /\ pc' = "i24_to_i32"
    /\ UNCHANGED <<mode, sck, stack, arg, i, n_reads, j, ret, pattern, log, rstart, rmode,
                   call, retries, powered_down, History, woke, sent>>

ConvReturn ==
    /\ pc = "i24_to_i32"
    /\ ret' = Ok(i24_to_i32(count))
    /\ pc' = "i24_to_i32_ret"
    /\ UNCHANGED <<mode, sck, stack, arg, Locals, pattern, log, rstart, rmode, call,
                   retries, powered_down, History, woke, sent>>

ConvNext == ConvCall \/ ConvReturn

SpecConv == Init /\ [][ConvNext]_vars

(***************************************************************************)
(* Reading the log.                                                        *)
(***************************************************************************)
\* The operations of the latest retrieve.
RLog == SubSeq(log, rstart, Len(log))

\* A retrieve has just returned, to set_mode or to the caller.
RetrieveReturned ==
    \/ In("set_mode", "set_mode_and")
    \/ pc = "idle" /\ call = "retrieve"

Returned(f) == pc = "idle" /\ call = f

IsWrite(o) == o[1] \in {"set_low", "set_high"}
Failed(o) == o[1] # "delay_us" /\ o[2] = -1
Writes(s) == SelectSeq(s, IsWrite)

\* Positions in s of the data-line reads; the first is the readiness check, the
\* others (SamplesAt) are the samples.
ReadsAt(s) == {k \in DOMAIN s : s[k][1] = "is_high"}
Min(S) == CHOOSE x \in S : \A y \in S : x <= y
Max(S) == CHOOSE x \in S : \A y \in S : x >= y
SamplesAt(s) == ReadsAt(s) \ {Min(ReadsAt(s))}

\* A whole clock pulse starts at position k of s: high, hold, low.
PulseAt(s, k) ==
    /\ k + 2 <= Len(s)
    /\ s[k] = <<"set_high", 0>>
    /\ s[k + 1][1] = "delay_us"
    /\ s[k + 2] = <<"set_low", 0>>

PulsesIn(s, from, to) == Cardinality({k \in from .. to : PulseAt(s, k)})
\* Pulses before the last sample was taken, and after it.
DataPulses(s) == PulsesIn(s, 1, Max(ReadsAt(s)))
TrailingPulses(s) == PulsesIn(s, Max(ReadsAt(s)), Len(s))

\* The pulse count the datasheet gives each mode.
ModePulses(m) ==
    CASE m = ChAGain128 -> 1
      [] m = ChBGain32 -> 2
      [] m = ChAGain64 -> 3

\* The levels sampled by the retrieve whose operations are s, in the order
\* sampled (the readiness check, which is the first read, left out).
IsRead(o) == o[1] = "is_high"
Samples(s) ==
    LET r == SelectSeq(s, IsRead)
    IN  [k \in 1 .. (Len(r) - 1) |-> r[k + 1][2]]

\* The two's-complement value of the bits b, most significant first.
RECURSIVE Weighted(_, _)
Weighted(b, k) ==
    IF k > Len(b) THEN 0 ELSE b[k] * Pow2(Len(b) - k) + Weighted(b, k + 1)
TwosComplement(b) == Weighted(b, 1) - b[1] * Pow2(Len(b))

(***************************************************************************)
(* Properties.                                                             *)
(***************************************************************************)
\* C1: a retrieve that returns Ok has driven the clock low once and then through
\* exactly 24 + pulses(m) pulses, each a drive-high followed by a drive-low, where
\* m is the mode stored when retrieve was called and pulses is 1, 2, 3 for
\* ChAGain128, ChBGain32, ChAGain64.
C1_PulseCount ==
    (RetrieveReturned /\ ret.kind = "Ok") =>
        LET w == Writes(RLog)
            n == 24 + ModePulses(rmode)
        IN  /\ Len(w) = 1 + 2 * n
            /\ w[1] = <<"set_low", 0>>
            /\ \A k \in 1 .. n : w[2 * k] = <<"set_high", 0>> /\ w[2 * k + 1] = <<"set_low", 0>>
            /\ PulsesIn(RLog, 1, Len(RLog)) = n

C1_Witness ==
    /\ Returned("retrieve")
    /\ ret.kind = "Ok"
    /\ rmode = ChAGain64
    /\ Len(Writes(RLog)) = 55

\* C2: a retrieve whose readiness check reads the data line high returns the
\* not-ready status; its only operations are the initial drive-low of the clock
\* and that read, and the stored mode is the one it was called with.
C2_NotReady ==
    (RetrieveReturned /\ Len(RLog) >= 2 /\ RLog[2] = <<"is_high", 1>>) =>
        /\ ret = WouldBlock
        /\ RLog = << <<"set_low", 0>>, <<"is_high", 1>> >>
        /\ mode = rmode

\* A not-ready retrieve on a driver that a successful set_mode has put in mode 3.
C2_Witness ==
    /\ Returned("retrieve")
    /\ ret = WouldBlock
    /\ RLog = << <<"set_low", 0>>, <<"is_high", 1>> >>
    /\ mode = ChAGain64
    /\ latched = ChAGain64

C4_ModeChangeEffect ==
    /\ (Returned("set_mode") /\ ret.kind = "Ok") =>
           /\ DataPulses(RLog) = 24
           /\ TrailingPulses(RLog) = ModePulses(arg)
    /\ (Returned("retrieve") /\ ret.kind = "Ok" /\ latched # 0) =>
           /\ DataPulses(RLog) = 24
           /\ TrailingPulses(RLog) = ModePulses(latched)

C4_Witness ==
    /\ Returned("retrieve")
    /\ ret.kind = "Ok"
    /\ latched = ChBGain32
    /\ TrailingPulses(RLog) = 2

\* C5: the value of a successful retrieve is the two's-complement value of the 24
\* bits it sampled, the first sampled being the most significant, whatever the
\* mode and whatever happened in earlier calls.
C5_ValueFromBits ==
    (RetrieveReturned /\ ret.kind = "Ok") =>
        /\ Len(Samples(RLog)) = 24
        /\ ret.val = TwosComplement(Samples(RLog))

\* A negative value read in mode 3.
C5_Witness ==
    /\ Returned("retrieve")
    /\ ret = Ok(-13)
    /\ mode = ChAGain64
    /\ Samples(RLog)[1] = 1

\* C6: i24_to_i32(x) = x for 0 <= x <= 0x7FFFFF, and x - 0x1000000 for
\* 0x800000 <= x <= 0xFFFFFF.
C6_SignConversion ==
    pc = "i24_to_i32_ret" =>
        /\ (0 <= count /\ count <= 8388607) => ret = Ok(count)
        /\ (8388608 <= count /\ count <= 16777215) => ret = Ok(count - 16777216)

\* The smallest pattern with the sign bit set gives -8388608.
C6_Witness ==
    /\ pc = "i24_to_i32_ret"
    /\ count = 8388608
    /\ ret = Ok(-8388608)

\* C7: the first pin operation that fails is the last operation of the public
\* call: nothing is read, written or retried after it, and every function on the
\* stack returns the Input error for a failed read and the Output error for a
\* failed write; an error is returned for no other reason.
C7_FirstFailureEnds ==
    /\ \A k \in DOMAIN log : Failed(log[k]) => k = Len(log)
    /\ (log # <<>> /\ Failed(log[Len(log)])) =>
           /\ pc \in {"idle", "set_mode_and", "enable_block", "reset_q", "reset_ret",
                      "new_ret"}
           /\ ret = IF log[Len(log)][1] = "is_high" THEN ErrInput ELSE ErrOutput
    /\ (pc = "idle" /\ ret.kind \in {"Input", "Output"}) =>
           log # <<>> /\ Failed(log[Len(log)])

\* enable has returned the Input error of a sample that failed in the middle of
\* the read it made after one not-ready attempt.
C7_Witness ==
    /\ Returned("enable")
    /\ ret = ErrInput
    /\ retries = 1
    /\ Len(RLog) > 40

\* C8: a successful retrieve samples the data line 24 times, the n-th sample
\* right after the falling edge of the n-th clock pulse, and the pulses after
\* the 24th sample (the mode pulses) come with no sample.
C8_SamplesOnlyInDataPulses ==
    (RetrieveReturned /\ ret.kind = "Ok") =>
        LET s == RLog
            at == SamplesAt(s)
        IN  /\ Cardinality(at) = 24
            /\ \A k \in at :
                   /\ s[k - 1] = <<"set_low", 0>>
                   /\ PulsesIn(s, 1, k) = Cardinality({l \in at : l <= k})
            /\ PulsesIn(s, 1, Max(at)) = 24
            /\ PulsesIn(s, Max(at), Len(s)) = ModePulses(rmode)
            /\ \A k \in Max(at) + 1 .. Len(s) : s[k][1] # "is_high"

C8_Witness ==
    /\ Returned("retrieve")
    /\ ret.kind = "Ok"
    /\ rmode = ChAGain64
    /\ Cardinality(SamplesAt(RLog)) = 24
    /\ TrailingPulses(RLog) = 3

\* C9: a successful enable after a successful disable leaves the stored mode m
\* as it was before the disable and the clock low, which is the state of a
\* driver just constructed and set to m; and a retrieve that follows, given the
\* same answer of the data line as the reference retrieve of a fresh driver in
\* mode m, issues the same operations and returns the same result.
C9_PowerCycleAsFresh ==
    /\ (Returned("enable") /\ ret.kind = "Ok" /\ pd_mode # 0) =>
           mode = pd_mode /\ sck = "low" /\ ~powered_down
    /\ (Returned("new") /\ ret.kind = "Ok") =>
           mode = ChAGain128 /\ sck = "low" /\ ~powered_down
    /\ (Returned("set_mode") /\ ret.kind = "Ok" /\ fresh) =>
           mode = arg /\ sck = "low" /\ ~powered_down
    /\ (/\ Returned("retrieve")
        /\ pd_mode # 0
        /\ ref # NoRef
        /\ ref.mode = pd_mode
        /\ ret.kind \in {"Ok", "WouldBlock"}
        /\ ref.input = Input) =>
           /\ log = ref.log
           /\ ret = ref.ret

\* A completed read in mode 3 after disable and enable, with a reference read of
\* the same conversion by a fresh driver in mode 3.
C9_Witness ==
    /\ Returned("retrieve")
    /\ pd_mode = ChAGain64
    /\ ref.mode = ChAGain64
    /\ ret.kind = "Ok"
    /\ ref.input = Input
    /\ ref.input = 16777203

\* C10 as stated: while the driver is powered down, retrieve, set_mode and
\* get_mode leave the clock high and the driver powered down.
C10_OnlyEnableOrResetWake ==
    [][(powered_down /\ call \in {"retrieve", "set_mode", "get_mode"})
          => (powered_down' /\ sck' = "high")]_vars

\* C10, amended: a successful disable leaves the clock high and the driver
\* powered down; get_mode keeps it so; it is left by the first successful
\* drive-low of the clock, which enable (also inside reset and new) and new issue,
\* but retrieve (also inside set_mode) as well, each as its first pin operation.
C10_WakeByFirstDriveLow ==
    /\ []((Returned("disable") /\ ret.kind = "Ok") => (powered_down /\ sck = "high"))
    /\ [](powered_down => sck = "high")
    /\ [][(powered_down /\ ~powered_down') =>
             /\ Top \in {"retrieve", "enable", "new"}
             /\ pc \in {"retrieve_set_low", "enable_set_low", "new_set_low"}
             /\ log' = Append(log, <<"set_low", 0>>)
             /\ sck' = "low"]_vars
    /\ [][(powered_down /\ call' = "get_mode") => powered_down']_vars

\* The first drive-low of a retrieve has just ended a power-down.
C10_Witness ==
    /\ woke
    /\ call = "retrieve"
    /\ In("retrieve", "retrieve_ready")
    /\ log = << <<"set_low", 0>> >>
    /\ sck = "low"

(***************************************************************************)
(* C11: the clock level at the return of a public operation.               *)
(***************************************************************************)
\* The clock writes of the call that succeeded, as positions in its log.
Driven == {k \in DOMAIN log : IsWrite(log[k]) /\ ~Failed(log[k])}
Reading == {"retrieve", "set_mode", "enable", "reset", "new"}

\* C11 as stated: at the return of every public operation other than disable,
\* whatever its outcome, the last level the call drove on the clock line is
\* low.  A drive-low that fails ends the call with the level driven before it.
C11_LowAtEveryReturn ==
    (pc = "idle" /\ call \in Reading /\ Driven # {})
        => log[Max(Driven)][1] = "set_low"

\* C11: a reading operation (retrieve, set_mode, enable, reset, new) that
\* returns Ok, not-ready or an Input error leaves the clock line low, and a
\* successful disable leaves it high; a call that returns an Output error after
\* it drove the clock high failed on a drive-low, and then the line stays high.
C11_LowAtReturn ==
    /\ (pc = "idle" /\ call \in Reading /\ ret.kind \in {"Ok", "WouldBlock", "Input"})
           => sck = "low"
    /\ (Returned("disable") /\ ret.kind = "Ok") => sck = "high"
    /\ (pc = "idle" /\ call \in Reading /\ Driven # {}
            /\ log[Max(Driven)][1] = "set_high")
           => /\ ret = ErrOutput
              /\ sck = "high"
              /\ log[Len(log)] = SetLow(FALSE)

\* A retrieve returned an Output error in the middle of a pulse: the drive-low
\* of the pulse failed and the clock line is left high.
C11_Witness ==
    /\ Returned("retrieve")
    /\ ret = ErrOutput
    /\ sck = "high"
    /\ Len(log) > 3
    /\ log[Len(log) - 2] = SetHigh(TRUE)
    /\ log[Len(log)] = SetLow(FALSE)

(***************************************************************************)
(* C12: what a successful new has done.                                    *)
(***************************************************************************)
\* The operations of a read-if-ready that found the data line high.
NotReadyOps == <<SetLow(TRUE), IsHigh(1)>>

\* C12: when new returns Ok the stored mode is ChAGain128 (one pulse), the
\* clock is low, and the call performed in this order: drive low; drive high
\* and hold it for the power-down time; drive low (and the low-hold time); the
\* not-ready attempts of the wait, which only drive low and read; then exactly
\* one completed read cycle of 24 data pulses and exactly 1 trailing pulse,
\* whose value is not returned.
C12_NewSequence ==
    (Returned("new") /\ ret.kind = "Ok") =>
        /\ mode = ChAGain128
        /\ ModePulses(mode) = 1
        /\ sck = "low"
        /\ ret = Ok(0)
        /\ SubSeq(log, 1, 5) = <<SetLow(TRUE), SetHigh(TRUE), DelayUs(TIME_TO_SLEEP),
                                 SetLow(TRUE), DelayUs(TIME_SCK_LOW)>>
        /\ rstart = 6 + 2 * retries
        /\ \A k \in 0 .. (retries - 1) : SubSeq(log, 6 + 2 * k, 7 + 2 * k) = NotReadyOps
        /\ SubSeq(RLog, 1, 3) = <<SetLow(TRUE), IsHigh(0), DelayUs(TIME_BEFORE_READOUT)>>
        /\ Cardinality(ReadsAt(RLog)) = 1 + NBITS
        /\ DataPulses(RLog) = NBITS
        /\ TrailingPulses(RLog) = 1
        /\ Len(RLog) = 3 + 5 * NBITS + 4
        /\ \A k \in DOMAIN log : ~Failed(log[k])

\* new returned Ok after one not-ready attempt and a conversion that was not
\* zero.
C12_Witness ==
    /\ Returned("new")
    /\ ret.kind = "Ok"
    /\ retries = 1
    /\ pattern = 8388607
    /\ Len(log) = 5 + 2 + 127

(***************************************************************************)
(* C13: the range of the values retrieve returns.                          *)
(***************************************************************************)
\* C13: every value a successful retrieve returns lies in the closed range
\* [-2^23, 2^23 - 1], whatever 24 bits the data line delivered.
C13_ValueRange ==
    (RetrieveReturned /\ ret.kind = "Ok") =>
        /\ -Pow2(23) <= ret.val
        /\ ret.val <= Pow2(23) - 1

\* Both bounds are returned: a retrieve returned -2^23 for the pattern 0x800000
\* after the recorded retrieve of the same driver had returned 2^23 - 1 for the
\* pattern 0x7FFFFF.
C13_Witness ==
    /\ Returned("retrieve")
    /\ pattern = 8388608
    /\ ret = Ok(-Pow2(23))
    /\ ref # NoRef
    /\ ref.input = 8388607
    /\ ref.ret = Ok(Pow2(23) - 1)

(***************************************************************************)
(* C14: the public range constants.                                        *)
(***************************************************************************)
\* C14: MAX_VALUE and MIN_VALUE bound the values retrieve returns: every
\* successful retrieve result r satisfies MIN_VALUE <= r <= MAX_VALUE.
C14_RangeConstants ==
    (RetrieveReturned /\ ret.kind = "Ok") =>
        /\ MIN_VALUE <= ret.val
        /\ ret.val <= MAX_VALUE

(***************************************************************************)
(* C15: how long the clock is held high.                                   *)
(***************************************************************************)
\* The successful drive-highs of the call, and the one among them that its
\* disable made (the first operation of disable and reset, the second of new).
HighAt == {k \in Driven : log[k][1] = "set_high"}
DisableHighAt ==
    HighAt \cap (CASE call \in {"disable", "reset"} -> {1}
                   [] call = "new" -> {2}
                   [] OTHER -> {})
PulseHighAt == HighAt \ DisableHighAt

DisableReturned == Returned("disable") \/ In("reset", "reset_q")
DisableLog == SubSeq(log, IF call = "new" THEN 2 ELSE 1, Len(log))

\* C16: a disable that succeeds drove the clock high and then requested one
\* delay of 70 us, not less than the 60 us power-down threshold, with no clock
\* write in between or afterwards, so that it returns with the clock high; a
\* disable whose drive-high fails returns the Output error without requesting
\* the delay; in both cases it read no data line and the stored mode is the one
\* it was called with.
C16_Disable ==
    DisableReturned =>
        /\ \/ /\ ret = Ok(0)
              /\ DisableLog = <<SetHigh(TRUE), DelayUs(TIME_TO_SLEEP)>>
              /\ TIME_TO_SLEEP >= POWER_DOWN_US
              /\ sck = "high"
           \/ /\ ret = ErrOutput
              /\ DisableLog = <<SetHigh(FALSE)>>
        /\ ReadsAt(DisableLog) = {}
        /\ mode = requested
        /\ Returned("disable") => mode = pd_mode

\* A disable called with the mode ChAGain64 stored, which a successful
\* set_mode had set, returned Ok.
C16_Witness ==
    /\ Returned("disable")
    /\ ret = Ok(0)
    /\ pd_mode = ChAGain64
    /\ latched = ChAGain64
    /\ sck = "high"
    /\ log = <<SetHigh(TRUE), DelayUs(TIME_TO_SLEEP)>>

(***************************************************************************)
(* C17: the wait of enable.                                                *)
(***************************************************************************)
\* The driver is a single thread of control that keeps running: a step that
\* can be taken is taken.
SpecLive == Init /\ [][Next]_vars /\ WF_vars(Next)

\* The calls that end in enable, and the operations the call logged before its
\* enable began.
Enabling == {"enable", "reset", "new"}
EnableFrom ==
    CASE call = "enable" -> 0
      [] call = "reset" -> 2
      [] call = "new" -> 3
      [] OTHER -> 0

\* The attempts of the wait that were not ready only drove the clock low and
\* read the data line; enable returns no not-ready status; and an enable that
\* returns with no pin failed returns Ok after its drive-low, the low-hold
\* time, the not-ready attempts and exactly one completed read cycle with the
\* pulse count of the stored mode, which it leaves as it was.
EnableShape ==
    call \in Enabling =>
        /\ \A k \in 0 .. (retries - 1) :
               SubSeq(log, EnableFrom + 3 + 2 * k, EnableFrom + 4 + 2 * k) = NotReadyOps
        /\ pc = "idle" =>
               /\ ret.kind # "WouldBlock"
               /\ (\A k \in DOMAIN log : ~Failed(log[k])) =>
                      /\ ret = Ok(0)
                      /\ SubSeq(log, EnableFrom + 1, EnableFrom + 2)
                             = <<SetLow(TRUE), DelayUs(TIME_SCK_LOW)>>
                      /\ rstart = EnableFrom + 3 + 2 * retries
                      /\ Cardinality(ReadsAt(log)) = retries + 1 + NBITS
                      /\ DataPulses(RLog) = NBITS
                      /\ TrailingPulses(RLog) = ModePulses(mode)
                      /\ Len(RLog) = 3 + 5 * NBITS + 4 * ModePulses(mode)
                      /\ mode = requested
                      /\ sck = "low"

\* A not-ready answer never ends the wait: the read is called again.
EnableRetries ==
    (In("enable", "enable_block") /\ ret.kind = "WouldBlock")
        => (pc' = "enable_call" /\ stack' = stack /\ retries' = retries + 1)

\* C17: enable (and so reset and new) drives the clock low, waits the low-hold
\* time and retries the read-if-ready with the stored mode; while the data
\* line reads high it does not return, each such attempt only driving the clock
\* low and reading; once the data line reads low at a readiness check, and no
\* pin fails, it returns Ok after exactly one completed read cycle; and a call
\* in progress does return.
C17_EnableWaits ==
    /\ []EnableShape
    /\ [][EnableRetries]_vars
    /\ (call \in Enabling /\ pc # "idle") ~> (call \in Enabling /\ pc = "idle")

\* enable returned Ok after the data line had read high at two readiness
\* checks.
C17_Witness ==
    /\ Returned("enable")
    /\ ret = Ok(0)
    /\ retries = 2
    /\ mode = ChBGain32
    /\ Len(log) = 2 + 2 * 2 + 3 + 5 * NBITS + 4 * 2

(***************************************************************************)
(* C18: the clock level at the data-line reads.                            *)
(***************************************************************************)
\* C18: the data line is only read while the clock line is low: wherever the
\* next operation is a read (the readiness check or a bit sample) the clock is
\* low, and every read in the log of a call comes directly after a successful
\* drive-low, which is then the most recent clock write; for a bit sample it is
\* the falling edge of the bit's pulse.
C18_ReadsWhileLow ==
    /\ pc \in {"retrieve_ready", "bit_sample"} => sck = "low"
    /\ \A k \in ReadsAt(log) : k > 1 /\ log[k - 1] = SetLow(TRUE)
    /\ \A k \in ReadsAt(RLog) \ {2} : PulseAt(RLog, k - 3)

\* The last bit of a conversion has just been sampled high, after the falling
\* edge of the 24th pulse.
C18_Witness ==
    /\ In("retrieve", "bit_delay_low")
    /\ i = NBITS - 1
    /\ sck = "low"
    /\ log[Len(log)] = IsHigh(1)
    /\ PulseAt(log, Len(log) - 3)

(***************************************************************************)
(* C19: the stored mode.                                                   *)
(***************************************************************************)
\* C19: get_mode performs no pin operation and returns the mode most recently
\* passed to set_mode, ChAGain128 if set_mode was never called on the driver;
\* and during and after retrieve, disable, enable and reset, whatever their
\* outcome, the stored mode is still that mode.
C19_StoredMode ==
    /\ Returned("get_mode") =>
           /\ ret = Ok(requested)
           /\ log = <<>>
           /\ requested \in Mode
    /\ call \in {"retrieve", "disable", "enable", "reset", "get_mode"}
           => mode = requested
    /\ (call = "new" /\ mode # NoDriver) => (mode = ChAGain128 /\ requested = ChAGain128)

\* get_mode returned ChAGain64, the mode passed to the last set_mode call,
\* which did not return Ok.
C19_Witness ==
    /\ Returned("get_mode")
    /\ ret = Ok(ChAGain64)
    /\ requested = ChAGain64
    /\ latched = 0

(***************************************************************************)
(* C20: a set_mode whose read does not succeed.                            *)
(***************************************************************************)
\* The whole trailing pulses the call has sent after the 24th sample of its
\* read, 0 if the read did not get that far.
SentInCall ==
    IF /\ Cardinality(ReadsAt(RLog)) = 1 + NBITS
       /\ \A k \in ReadsAt(RLog) : ~Failed(RLog[k])
    THEN TrailingPulses(RLog)
    ELSE 0
SetModeFailed == Returned("set_mode") /\ ret.kind # "Ok"

\* C20 as stated: when the read inside set_mode(m) ends not-ready or with a pin
\* error, m is stored and no trailing pulse has been sent.  A pin that fails
\* among the trailing pulses leaves some of them sent.
C20_NoTrailingPulseSent ==
    SetModeFailed => (mode = arg /\ SentInCall = 0)

\* After a set_mode(m) that did not return Ok the stored mode is m, and the
\* call has sent fewer whole trailing pulses than the count of m: none when it
\* ended not-ready or with an Input error.
SetModeKept ==
    SetModeFailed =>
        /\ mode = arg
        /\ requested = arg
        /\ SentInCall < ModePulses(arg)
        /\ ret.kind \in {"WouldBlock", "Input"} => SentInCall = 0

\* The pulse count last transmitted by a completed read cycle changes only
\* when a read cycle completes, after all its samples, and then to the count
\* of the mode last passed to set_mode.
SentOnlyByCompletedRead ==
    /\ pc = "retrieve_ok" =>
           /\ sent' = ModePulses(requested)
           /\ sent' = TrailingPulses(RLog)
           /\ Cardinality(ReadsAt(RLog)) = 1 + NBITS
    /\ pc # "retrieve_ok" => sent' = sent

\* C20: set_mode(m) stores m before the read and does not roll it back: when
\* the read ends not-ready or with a pin error the stored mode, which get_mode
\* returns, is m although the pulse count of m has not been sent (no trailing
\* pulse, or fewer than the count of m when the pin failed among them); the
\* count of m is first transmitted by the next read cycle that completes,
\* which has taken its samples before.
C20_StoredBeforeSent ==
    /\ []SetModeKept
    /\ [][SentOnlyByCompletedRead]_vars

\* set_mode(ChAGain64) returned not-ready: the stored mode is ChAGain64 while
\* the last completed read cycle transmitted the one pulse of ChAGain128.
C20_Witness ==
    /\ Returned("set_mode")
    /\ ret = WouldBlock
    /\ arg = ChAGain64
    /\ mode = ChAGain64
    /\ sent = ModePulses(ChAGain128)

====
